---------------------------- MODULE Spec2Model ----------------------------
(***************************************************************************)
(* Model of orcid_to_drupal_snippet.py: the members file, the filter       *)
(* profiles, the per-member fetch and filter, the global deduplication,    *)
(* the classification into journals / conferences / books and the          *)
(* rendering of the numbered lists.                                        *)
(*                                                                         *)
(* Text is a sequence of characters, each character a one-element token    *)
(* ("a", "-", " "); a character outside ASCII is named by its code point   *)
(* ("u2013" is the en dash).  An optional value (a field that may be       *)
(* missing or None) is a sequence of length at most one: <<>> is None and  *)
(* <<v>> is v.  A score is an integer number of hundredths.                *)
(***************************************************************************)
EXTENDS Integers, Sequences, FiniteSets, TLC

VARIABLES
    pc,             \* position of the run (main) or of the function harness
    arg,            \* the argument handed to the function under study
    res,            \* its result(s)
    csv,            \* the members file: <<>> when missing, else <<rows>>
    members,        \* main: the list read_members_csv returned
    idx,            \* main: index of the member the loop is at
    profile_cache,  \* main: profile name -> [flt, concept_ids]
    included_all,   \* main: accumulated works that passed their filter
    excluded_all,   \* main: accumulated works that did not
    journals,       \* main: the three buckets
    conferences,
    books,
    written,        \* main: sequence of [file, items] written so far
    calls           \* history of the run: loads, lookups, fetches

fnVars   == <<arg, res>>
mainVars == <<csv, members, idx, profile_cache, included_all, excluded_all,
              journals, conferences, books, written, calls>>
vars     == <<pc, arg, res, csv, members, idx, profile_cache, included_all,
              excluded_all, journals, conferences, books, written, calls>>

---------------------------------------------------------------------------
(* Characters and text                                                     *)

UpperLetters ==
    <<"A","B","C","D","E","F","G","H","I","J","K","L","M",
      "N","O","P","Q","R","S","T","U","V","W","X","Y","Z">>

LowerLetters ==
    <<"a","b","c","d","e","f","g","h","i","j","k","l","m",
      "n","o","p","q","r","s","t","u","v","w","x","y","z">>

Digits == {"0","1","2","3","4","5","6","7","8","9"}

Range(s) == {s[i] : i \in DOMAIN s}

\* str.lower() on one character.
LowerChar(c) ==
    IF \E i \in DOMAIN UpperLetters : UpperLetters[i] = c
    THEN LowerLetters[CHOOSE i \in DOMAIN UpperLetters : UpperLetters[i] = c]
    ELSE c

\* str.lower()
Lower(s) == [i \in DOMAIN s |-> LowerChar(s[i])]

\* str.isalnum() on one character.
IsAlnum(c) == c \in Range(UpperLetters) \cup Range(LowerLetters) \cup Digits

\* What \s and str.strip() take for white space.
IsSpace(c) == c \in {" ", "\t", "\n", "u00A0"}

\* unicodedata.normalize("NFKC", c) of one character: the compatibility
\* characters of the model's alphabet and what they decompose to.
NfkcChar(c) ==
    CASE c = "uFF21" -> <<"A">>          \* FULLWIDTH LATIN CAPITAL LETTER A
      [] c = "u00A0" -> <<" ">>          \* NO-BREAK SPACE
      [] c = "u2011" -> <<"u2010">>      \* NON-BREAKING HYPHEN
      [] c = "uFE58" -> <<"u2014">>      \* SMALL EM DASH
      [] c = "uFE63" -> <<"-">>          \* SMALL HYPHEN-MINUS
      [] c = "uFF0D" -> <<"-">>          \* FULLWIDTH HYPHEN-MINUS
      [] OTHER       -> <<c>>

RECURSIVE Nfkc(_)
Nfkc(s) == IF s = <<>> THEN <<>> ELSE NfkcChar(Head(s)) \o Nfkc(Tail(s))

\* s.replace(old, new) for a non-empty old: leftmost, non-overlapping.
RECURSIVE Replace(_, _, _)
Replace(s, old, new) ==
    IF Len(s) < Len(old) THEN s
    ELSE IF SubSeq(s, 1, Len(old)) = old
         THEN new \o Replace(SubSeq(s, Len(old) + 1, Len(s)), old, new)
         ELSE <<Head(s)>> \o Replace(Tail(s), old, new)

\* sub in s
Contains(s, sub) ==
    \E i \in 0..(Len(s) - Len(sub)) : SubSeq(s, i + 1, i + Len(sub)) = sub

RECURSIVE LStrip(_)
LStrip(s) == IF s # <<>> /\ IsSpace(Head(s)) THEN LStrip(Tail(s)) ELSE s

RECURSIVE RStrip(_)
RStrip(s) ==
    IF s # <<>> /\ IsSpace(s[Len(s)]) THEN RStrip(SubSeq(s, 1, Len(s) - 1)) ELSE s

\* str.strip()
Strip(s) == RStrip(LStrip(s))

\* x or "" for an optional text x.
OrEmpty(o) == IF o = <<>> THEN <<>> ELSE o[1]

---------------------------------------------------------------------------
(* norm_text                                                               *)

DASHES ==
    {"u2010", "u2011", "u2012", "u2013", "u2014",
     "u2212", "u2043", "uFE58", "uFE63", "uFF0D"}

\* for d in DASHES: s = s.replace(d, "-")
ReplaceDashes(s) == [i \in DOMAIN s |-> IF s[i] \in DASHES THEN "-" ELSE s[i]]

\* s.replace("_", " ").replace("/", " ")
ReplaceSeparators(s) == [i \in DOMAIN s |-> IF s[i] \in {"_", "/"} THEN " " ELSE s[i]]

\* the loop keeping alphanumerics, " " and "-" and blanking the rest
BlankPunctuation(s) ==
    [i \in DOMAIN s |-> IF IsAlnum(s[i]) \/ s[i] \in {" ", "-"} THEN s[i] ELSE " "]

\* re.sub(r"\s+", " ", s)
RECURSIVE CollapseSpaces(_)
CollapseSpaces(s) ==
    IF s = <<>> THEN <<>>
    ELSE IF IsSpace(Head(s))
         THEN <<" ">> \o CollapseSpaces(LStrip(Tail(s)))
         ELSE <<Head(s)>> \o CollapseSpaces(Tail(s))

RECURSIVE DropHyphens(_)
DropHyphens(s) == IF s # <<>> /\ Head(s) = "-" THEN DropHyphens(Tail(s)) ELSE s

\* a plausible slip: s.replace("--", "-"), which halves a run instead of
\* collapsing it
CollapseHyphensPairwise(s) == Replace(s, <<"-", "-">>, <<"-">>)

\* re.sub(r"-{2,}", "-", s)
RECURSIVE CollapseHyphens(_)
CollapseHyphens(s) ==
    IF s = <<>> THEN <<>>
    ELSE IF Head(s) = "-"
         THEN <<"-">> \o CollapseHyphens(DropHyphens(Tail(s)))
         ELSE <<Head(s)>> \o CollapseHyphens(Tail(s))

norm_text(s) ==
    LET s1 == Lower(Nfkc(s))
        s2 == ReplaceSeparators(ReplaceDashes(s1))
        s3 == BlankPunctuation(s2)
        s4 == Strip(CollapseSpaces(s3))
    IN  CollapseHyphens(s4)

---------------------------------------------------------------------------
(* Works                                                                   *)

\* One OpenAlex work, with the fields the program reads.  venue and src_type
\* are primary_location.source.display_name and .type.
Work(title, doi, year, type, venue, src_type, concepts) ==
    [title |-> title, doi |-> doi, publication_year |-> year, type |-> type,
     venue |-> venue, src_type |-> src_type, concepts |-> concepts]

\* str(n) for n >= 0
RECURSIVE IntText(_)
IntText(n) ==
    LET digit == <<"0","1","2","3","4","5","6","7","8","9">>[(n % 10) + 1]
    IN  IF n < 10 THEN <<digit>> ELSE Append(IntText(n \div 10), digit)

\* str(w.get("publication_year") or "").strip(): None and 0 both give ""
YearText(w) ==
    IF w.publication_year = <<>> \/ w.publication_year[1] = 0
    THEN <<>>
    ELSE Strip(IntText(w.publication_year[1]))

DoiUrlHttps == <<"h","t","t","p","s",":","/","/","d","o","i",".","o","r","g","/">>
DoiUrlHttp  == <<"h","t","t","p",":","/","/","d","o","i",".","o","r","g","/">>

\* a plausible slip: the case of the DOI is kept
doi_norm_keep_case(doi) ==
    Replace(Replace(Strip(doi), DoiUrlHttps, <<>>), DoiUrlHttp, <<>>)

doi_norm(doi) ==
    Replace(Replace(Lower(Strip(doi)), DoiUrlHttps, <<>>), DoiUrlHttp, <<>>)

\* the title dedup_works tests and builds the key from
DedupTitle(w) == Strip(OrEmpty(w.title))

\* the key dedup_works gives a work
DedupKey(w) ==
    LET doi == doi_norm(OrEmpty(w.doi))
    IN  IF doi # <<>> THEN doi
        ELSE Lower(DedupTitle(w)) \o <<"|">> \o YearText(w)

\* the loop of dedup_works, from the works left and the keys seen so far
RECURSIVE DedupLoop(_, _)
DedupLoop(works, seen) ==
    IF works = <<>> THEN <<>>
    ELSE LET w == Head(works)
         IN  IF DedupTitle(w) = <<>> THEN DedupLoop(Tail(works), seen)
             ELSE IF DedupKey(w) \in seen THEN DedupLoop(Tail(works), seen)
             ELSE <<w>> \o DedupLoop(Tail(works), seen \cup {DedupKey(w)})

\* a plausible slip: the key is never added to seen
RECURSIVE DedupLoopNoAdd(_, _)
DedupLoopNoAdd(works, seen) ==
    IF works = <<>> THEN <<>>
    ELSE LET w == Head(works)
         IN  IF DedupTitle(w) = <<>> THEN DedupLoopNoAdd(Tail(works), seen)
             ELSE <<w>> \o DedupLoopNoAdd(Tail(works), seen)

dedup_works_no_add(works) == DedupLoopNoAdd(works, {})

dedup_works(works) == DedupLoop(works, {})

---------------------------------------------------------------------------
(* Filter profiles and work_passes_filters                                 *)

\* One filter profile, as json.load returns it.  mode and min_concept_score
\* are optional; the lists default to [] when absent, which is how an absent
\* list is held here.
Profile(mode, exclude_dois, exclude_kw, include_kw, include_concepts, min_score) ==
    [mode |-> mode, exclude_dois |-> exclude_dois,
     exclude_title_keywords |-> exclude_kw,
     include_title_keywords |-> include_kw,
     include_concepts |-> include_concepts,
     min_concept_score |-> min_score]

DefaultMode == "include_if_any"

\* 0.35, in hundredths
DefaultMinScore == 35

\* flt.get("mode", "include_if_any")
ModeOf(flt) == IF flt.mode = <<>> THEN DefaultMode ELSE flt.mode[1]

title_matches(title, keywords) ==
    LET t == norm_text(title)
    IN  \E i \in DOMAIN keywords :
            /\ keywords[i] # <<>>
            /\ LET kk == norm_text(keywords[i])
               IN  kk # <<>> /\ Contains(t, kk)

\* a plausible slip: mode "none" is tested after the exclusions
work_passes_filters_mode_late(work, flt, include_concept_ids) ==
    LET title == OrEmpty(work.title)
        doi == doi_norm(OrEmpty(work.doi))
        exclude_dois == {Lower(flt.exclude_dois[i]) : i \in DOMAIN flt.exclude_dois}
    IN  IF doi # <<>> /\ doi \in exclude_dois THEN FALSE
        ELSE IF title_matches(title, flt.exclude_title_keywords) THEN FALSE
        ELSE TRUE

\* a plausible slip: the include keywords are tried before the exclusions
work_passes_filters_include_first(work, flt, include_concept_ids) ==
    IF ModeOf(flt) = "none" THEN TRUE
    ELSE
      LET title == OrEmpty(work.title)
          doi == doi_norm(OrEmpty(work.doi))
          exclude_dois == {Lower(flt.exclude_dois[i]) : i \in DOMAIN flt.exclude_dois}
      IN  IF title_matches(title, flt.include_title_keywords) THEN TRUE
          ELSE IF doi # <<>> /\ doi \in exclude_dois THEN FALSE
          ELSE IF title_matches(title, flt.exclude_title_keywords) THEN FALSE
          ELSE FALSE

work_passes_filters(work, flt, include_concept_ids) ==
    IF ModeOf(flt) = "none" THEN TRUE
    ELSE
      LET title == OrEmpty(work.title)
          doi == doi_norm(OrEmpty(work.doi))
          exclude_dois == {Lower(flt.exclude_dois[i]) : i \in DOMAIN flt.exclude_dois}
          min_score == IF flt.min_concept_score = <<>> THEN DefaultMinScore
                       ELSE flt.min_concept_score[1]
      IN  IF doi # <<>> /\ doi \in exclude_dois THEN FALSE
          ELSE IF title_matches(title, flt.exclude_title_keywords) THEN FALSE
          ELSE IF title_matches(title, flt.include_title_keywords) THEN TRUE
          ELSE \E i \in DOMAIN work.concepts :
                  /\ work.concepts[i].id \in include_concept_ids
                  /\ work.concepts[i].score >= min_score

---------------------------------------------------------------------------
(* sort_works and build_list_html                                          *)

\* the printable ASCII characters in code order, from 32 (space) on; the
\* quote, the backslash and the grave accent are named by their code points
Ascii ==
    <<
      " ","!","u0022","#","$","%","&","'","(",")","*","+",",","-",".","/",
      "0","1","2","3","4","5","6","7","8","9",":",";","<","=",">","?",
      "@","A","B","C","D","E","F","G","H","I","J","K","L","M","N","O",
      "P","Q","R","S","T","U","V","W","X","Y","Z","[","u005C","]","^","_",
      "u0060","a","b","c","d","e","f","g","h","i","j","k","l","m","n","o",
      "p","q","r","s","t","u","v","w","x","y","z","{","|","}","~"
    >>

\* ord(c): the place in Ascii for an ASCII character, the code point in the
\* name for the others
Ord(c) ==
    CASE c = "u00A0" -> 160
      [] c = "u2010" -> 8208
      [] c = "u2011" -> 8209
      [] c = "u2012" -> 8210
      [] c = "u2013" -> 8211
      [] c = "u2014" -> 8212
      [] c = "u2043" -> 8259
      [] c = "u2212" -> 8722
      [] c = "uFE58" -> 65112
      [] c = "uFE63" -> 65123
      [] c = "uFF0D" -> 65293
      [] c = "uFF21" -> 65313
      [] OTHER       -> 31 + CHOOSE i \in DOMAIN Ascii : Ascii[i] = c

\* a < b for two texts, as Python compares str: by code point, a proper
\* prefix first
RECURSIVE TextLess(_, _)
TextLess(a, b) ==
    IF b = <<>> THEN FALSE
    ELSE IF a = <<>> THEN TRUE
    ELSE IF Head(a) = Head(b) THEN TextLess(Tail(a), Tail(b))
    ELSE Ord(Head(a)) < Ord(Head(b))

\* the year a work with no integer year sorts with
NoYearValue == -1

\* a plausible slip: the year is not negated, so old works sort first
sort_key_ascending(w) ==
    LET y == IF w.publication_year = <<>> THEN NoYearValue ELSE w.publication_year[1]
    IN  <<y, Lower(OrEmpty(w.title))>>

\* sort_key(w) = (-y, t)
sort_key(w) ==
    LET y == IF w.publication_year = <<>> THEN NoYearValue ELSE w.publication_year[1]
    IN  <<0 - y, Lower(OrEmpty(w.title))>>

\* k1 < k2 for two sort keys, as Python compares tuples
KeyLess(k1, k2) == k1[1] < k2[1] \/ (k1[1] = k2[1] /\ TextLess(k1[2], k2[2]))

\* w put into the sorted list s behind every element whose key is not
\* greater: list.sort is stable
RECURSIVE InsertSorted(_, _)
InsertSorted(s, w) ==
    IF s = <<>> THEN <<w>>
    ELSE IF KeyLess(sort_key(w), sort_key(Head(s)))
         THEN <<w>> \o s
         ELSE <<Head(s)>> \o InsertSorted(Tail(s), w)

RECURSIVE SortLoop(_, _)
SortLoop(done, todo) ==
    IF todo = <<>> THEN done
    ELSE SortLoop(InsertSorted(done, Head(todo)), Tail(todo))

\* works.sort(key=sort_key)
sort_works(works) == SortLoop(<<>>, works)

\* works[:n]
SliceTo(works, n) ==
    IF n >= 0 THEN SubSeq(works, 1, IF n < Len(works) THEN n ELSE Len(works))
    ELSE SubSeq(works, 1, IF Len(works) + n > 0 THEN Len(works) + n ELSE 0)

\* The items of the list build_list_html emits, each with the number in its
\* art-num cell and the work whose citation it carries.  enumerate counts
\* from 0 and DOMAIN from 1: num = start_num - (i - 1).
build_list_html(works, max_items) ==
    LET shown == SliceTo(sort_works(dedup_works(works)), max_items)
        start_num == Len(shown)
    IN  [i \in DOMAIN shown |-> [num |-> start_num - (i - 1), work |-> shown[i]]]

---------------------------------------------------------------------------
(* Venue, conference, EGU, books                                           *)

W_proceedings == <<"p","r","o","c","e","e","d","i","n","g","s">>
W_conference  == <<"c","o","n","f","e","r","e","n","c","e">>
W_egu         == <<"e","g","u">>
W_union       == <<"e","u","r","o","p","e","a","n"," ","g","e","o","s","c","i","e","n",
                   "c","e","s"," ","u","n","i","o","n">>
W_assembly    == <<"g","e","n","e","r","a","l"," ","a","s","s","e","m","b","l","y">>
W_book        == <<"b","o","o","k">>
W_journal     == <<"j","o","u","r","n","a","l">>
W_book_chapter == <<"b","o","o","k","-","c","h","a","p","t","e","r">>
W_edited_book  == <<"e","d","i","t","e","d","-","b","o","o","k">>

\* (display_name, source_type), each "" when absent
get_venue_info(work) == <<OrEmpty(work.venue), OrEmpty(work.src_type)>>

is_conference(work) ==
    LET wtype == Lower(OrEmpty(work.type))
        src_type == Lower(get_venue_info(work)[2])
        v == Lower(get_venue_info(work)[1])
    IN  \/ Contains(wtype, W_proceedings) \/ Contains(wtype, W_conference)
        \/ src_type = W_conference
        \/ Contains(v, W_conference) \/ Contains(v, W_proceedings)

is_egu(work) ==
    LET v == Lower(get_venue_info(work)[1])
    IN  Contains(v, W_egu) \/ Contains(v, W_union) \/ Contains(v, W_assembly)

is_book_or_chapter(work) ==
    LET wtype == Lower(OrEmpty(work.type))
        st == Lower(get_venue_info(work)[2])
        v == Lower(get_venue_info(work)[1])
    IN  \/ wtype \in {W_book, W_book_chapter, W_edited_book}
        \/ Contains(st, W_book)
        \/ Contains(v, W_book) /\ ~Contains(v, W_journal)

\* a plausible slip: the conference test comes first
BucketConferenceFirst(w) ==
    IF is_conference(w) \/ is_egu(w) THEN "conferences"
    ELSE IF is_book_or_chapter(w) THEN "books"
    ELSE "journals"

\* the list main appends the work to
Bucket(w) ==
    IF is_book_or_chapter(w) THEN "books"
    ELSE IF is_conference(w) \/ is_egu(w) THEN "conferences"
    ELSE "journals"

\* the works of the list that main appends to bucket b, in order
RECURSIVE BucketOf(_, _)
BucketOf(works, b) ==
    IF works = <<>> THEN <<>>
    ELSE (IF Bucket(Head(works)) = b THEN <<Head(works)>> ELSE <<>>)
            \o BucketOf(Tail(works), b)

---------------------------------------------------------------------------
(* Members file                                                            *)

\* ORCID_RE.match(orcid): ^\d{4}-\d{4}-\d{4}-\d{3}[\dX]$ on a stripped text
ORCID_RE(orcid) ==
    /\ Len(orcid) = 19
    /\ \A i \in {5, 10, 15} : orcid[i] = "-"
    /\ \A i \in (1..18) \ {5, 10, 15} : orcid[i] \in Digits
    /\ orcid[19] \in Digits \cup {"X"}

\* one row of the members file as the loop of read_members_csv turns it
\* into a member: the profile cell defaults to "none"
MemberOfRow(row) ==
    [orcid |-> Strip(row.orcid),
     profile |-> IF row.filter_profile = <<>> THEN "none" ELSE row.filter_profile[1]]

\* read_members_csv on the rows of an existing file: the members, or the
\* SystemExit it raises (a malformed identifier, no member at all)
read_members_csv(rows) ==
    LET ms == [i \in DOMAIN rows |-> MemberOfRow(rows[i])]
    IN  IF \E i \in DOMAIN ms : ~ORCID_RE(ms[i].orcid)
        THEN [ok |-> FALSE, error |-> "malformed identifier", members |-> <<>>]
        ELSE IF ms = <<>>
        THEN [ok |-> FALSE, error |-> "no member", members |-> <<>>]
        ELSE [ok |-> TRUE, error |-> "", members |-> ms]

---------------------------------------------------------------------------
(* The filters directory and the concept service                           *)

K_salt     == <<"S","A","L","T">>
K_sea_salt == <<"s","e","a","-","s","a","l","t">>
K_ice      == <<"i","c","e">>
K_marks    == <<"?","!">>
D_abc      == <<"1","0",".","1","/","a","b","c">>
D_XYZ      == <<"1","0",".","1","/","X","Y","Z">>

\* The profile files of the filters directory, by profile name: a bare
\* "none", a "none" that also carries exclusions, and a filtering profile
\* that leaves mode to its default.  No file is there for any other name.
ProfileFiles ==
    [name \in {"none", "none_x", "atmo"} |->
        CASE name = "none" ->
               Profile(<<"none">>, <<>>, <<>>, <<>>, <<>>, <<>>)
          [] name = "none_x" ->
               Profile(<<"none">>, <<D_abc, D_XYZ>>, <<K_salt, K_ice>>, <<>>,
                       <<"Aerosol">>, <<90>>)
          [] name = "atmo" ->
               Profile(<<>>, <<D_XYZ>>, <<K_ice, K_marks>>, <<K_sea_salt>>,
                       <<"Aerosol">>, <<50>>)]

\* os.path.exists(path) in load_filter_profile
ProfileExists(profile_name) == profile_name \in DOMAIN ProfileFiles

\* the identifier the concept service gives for a name it knows
ConceptIdOf(name) == IF name = "Aerosol" THEN "C1" ELSE "C2"

\* What one concept_id_by_name call can do: give an identifier, find
\* nothing, or fail on the network.
LookupOutcomes == {"found", "none", "error"}

\* resolve_concept_ids(names) when call i ends as outcome[i] and none fails
resolve_concept_ids(names, outcome) ==
    {ConceptIdOf(names[i]) : i \in {j \in DOMAIN names : outcome[j] = "found"}}

\* a plausible slip: the cache is not consulted
NeedsLoadAlways(profile, cache) == TRUE

\* profile not in profile_cache
NeedsLoad(profile, cache) == profile \notin DOMAIN cache

\* profile_cache[profile] = (flt, concept_ids)
CachePut(cache, profile, flt, concept_ids) ==
    [p \in DOMAIN cache \cup {profile} |->
        IF p = profile THEN [flt |-> flt, concept_ids |-> concept_ids] ELSE cache[p]]

\* the works of the list that pass (keep = TRUE) or fail (keep = FALSE) the
\* filter: the inc and exc lists of main
RECURSIVE FilterLoop(_, _, _, _)
FilterLoop(works, flt, concept_ids, keep) ==
    IF works = <<>> THEN <<>>
    ELSE (IF work_passes_filters(Head(works), flt, concept_ids) = keep
          THEN <<Head(works)>> ELSE <<>>)
            \o FilterLoop(Tail(works), flt, concept_ids, keep)

\* a plausible slip: the deduplication of the merged list is left out
MergedNoDedup(works) == sort_works(works)

\* included_all after the loop: dedup_works, then sort_works
Merged(works) == sort_works(dedup_works(works))

\* --max and the cap of the excluded list
DefaultMax == 120
ExcludedMax == 300

---------------------------------------------------------------------------
(* Bounds                                                                  *)

MaxTextLen == 4      \* longest text handed to norm_text

\* The characters norm_text is tried on: a letter in both cases, a
\* compatibility letter, blank and tab, hyphen and two dash-like code
\* points, underscore, slash and a punctuation mark.
TextAlphabet == {"a", "A", "uFF21", " ", "\t", "-", "u2013", "_", "/", "."}

RECURSIVE TextsUpTo(_, _)
TextsUpTo(alphabet, n) ==
    IF n = 0 THEN {<<>>}
    ELSE LET shorter == TextsUpTo(alphabet, n - 1)
         IN  shorter \cup {Append(t, c) : t \in shorter, c \in alphabet}

---------------------------------------------------------------------------
(* Inputs of the dedup_works harness                                       *)

MaxWorks == 3        \* longest list handed to dedup_works

T_Dust      == <<"D","u","s","t">>
T_DUST_sp   == <<"D","U","S","T"," ">>
T_Rain      == <<"R","a","i","n">>
T_Snow      == <<"S","n","o","w">>
T_blank     == <<" ">>
D_ABC       == <<"1","0",".","1","/","A","B","C">>
D_ABC_slash == <<"1","0",".","1","/","A","B","C","/">>
D_url_Abc   == <<"h","t","t","p","s",":","/","/","d","o","i",".","o","r","g","/",
                 "1","0",".","1","/","A","b","c">>
D_xyz       == <<"1","0",".","1","/","x","y","z">>

\* a work of which only title, DOI and year matter
Plain(title, doi, year) == Work(title, doi, year, <<>>, <<>>, <<>>, <<>>)

DedupPool ==
    { Plain(<<T_Dust>>,    <<D_abc>>,       <<2020>>),
      Plain(<<T_Rain>>,    <<D_ABC>>,       <<2021>>),   \* other casing
      Plain(<<T_Dust>>,    <<D_ABC_slash>>, <<2020>>),   \* casing and slash
      Plain(<<T_Snow>>,    <<D_url_Abc>>,   <<>>),       \* as a doi.org URL
      Plain(<<T_Dust>>,    <<>>,            <<2020>>),   \* title|year key
      Plain(<<T_DUST_sp>>, <<<<>>>>,        <<2020>>),   \* same key, other text
      Plain(<<T_Dust>>,    <<>>,            <<>>),       \* no year
      Plain(<<<<>>>>,      <<D_abc>>,       <<2020>>),   \* empty title
      Plain(<<>>,          <<>>,            <<2021>>),   \* missing title
      Plain(<<T_blank>>,   <<D_xyz>>,       <<2021>>) }  \* white-space title

RECURSIVE SeqsUpTo(_, _)
SeqsUpTo(S, n) ==
    IF n = 0 THEN {<<>>}
    ELSE LET shorter == SeqsUpTo(S, n - 1)
         IN  shorter \cup {Append(t, x) : t \in shorter, x \in S}

---------------------------------------------------------------------------
(* Main-run variables at rest, for the function harnesses                  *)

MainIdle ==
    /\ csv = <<>>
    /\ members = <<>>
    /\ idx = 0
    /\ profile_cache = <<>>
    /\ included_all = <<>>
    /\ excluded_all = <<>>
    /\ journals = <<>>
    /\ conferences = <<>>
    /\ books = <<>>
    /\ written = <<>>
    /\ calls = <<>>

---------------------------------------------------------------------------
(* Harness: dedup_works applied once, then applied to its own result       *)

DedupInit ==
    /\ pc = "dedup_start"
    /\ arg \in SeqsUpTo(DedupPool, MaxWorks)
    /\ res = <<>>
    /\ MainIdle

DedupOnce ==
    /\ pc = "dedup_start"
    /\ res' = <<dedup_works(arg)>>
    /\ pc' = "dedup_once"
    /\ UNCHANGED <<arg>>
    /\ UNCHANGED mainVars

DedupTwice ==
    /\ pc = "dedup_once"
    /\ res' = Append(res, dedup_works(res[1]))
    /\ pc' = "dedup_twice"
    /\ UNCHANGED <<arg>>
    /\ UNCHANGED mainVars

DedupNext == DedupOnce \/ DedupTwice

SpecDedup == DedupInit /\ [][DedupNext]_vars

\* the elements of s at the positions P, in order
RECURSIVE Pick(_, _, _)
Pick(s, P, i) ==
    IF i > Len(s) THEN <<>>
    ELSE (IF i \in P THEN <<s[i]>> ELSE <<>>) \o Pick(s, P, i + 1)

\* the title is missing or the empty text
TitleEmpty(w) == OrEmpty(w.title) = <<>>

\* nothing is left of the title once white space is trimmed
TitleBlank(w) == Strip(OrEmpty(w.title)) = <<>>

\* the positions of the first work of each key among the works whose title
\* is not Dropped
FirstOfKey(s, Dropped(_)) ==
    { i \in DOMAIN s :
        /\ ~Dropped(s[i])
        /\ \A j \in 1..(i - 1) : Dropped(s[j]) \/ DedupKey(s[j]) # DedupKey(s[i]) }

\* the work's DOI is 10.1/abc in some casing, bare or as a doi.org URL
IsAbc(w) == Lower(OrEmpty(w.doi)) \in {D_abc, DoiUrlHttps \o D_abc}

\* the work's DOI is 10.1/abc/ in some casing: the same with a trailing slash
IsAbcSlash(w) == Lower(OrEmpty(w.doi)) = Append(D_abc, "/")

\* arg holds two works with non-empty titles whose DOIs are 10.1/abc written
\* in different casing, one (only) of them with a trailing slash
TwoCasingAndSlashVariants ==
    \E i, j \in DOMAIN arg :
        /\ i # j
        /\ ~TitleEmpty(arg[i]) /\ ~TitleEmpty(arg[j])
        /\ OrEmpty(arg[i].doi) = D_abc
        /\ OrEmpty(arg[j].doi) = D_ABC_slash

\* arg holds two works with non-empty titles whose DOIs are 10.1/abc written
\* in different casing, neither with a trailing slash
TwoCasingVariants ==
    \E i, j \in DOMAIN arg :
        /\ i # j
        /\ ~TitleEmpty(arg[i]) /\ ~TitleEmpty(arg[j])
        /\ OrEmpty(arg[i].doi) = D_abc
        /\ OrEmpty(arg[j].doi) = D_ABC

\* the positions of r whose work satisfies P
Where(r, P(_)) == { k \in DOMAIN r : P(r[k]) }

IsAbcAnyForm(w) == IsAbc(w) \/ IsAbcSlash(w)

\* C2 (as stated): two works with non-empty titles whose DOIs are "10.1/abc"
\* in different casing, one of them with a trailing slash: exactly one work
\* with that DOI is returned.
C2_Original ==
    (pc = "dedup_once" /\ TwoCasingAndSlashVariants)
        => Cardinality(Where(res[1], IsAbcAnyForm)) = 1

\* C2 (amended): two works with non-empty titles whose DOIs are "10.1/abc"
\* in different casing: exactly one work with that DOI is returned, the
\* first of the list that has it; a trailing slash is kept by doi_norm, so
\* when one of the two also has a trailing slash it is another key and
\* two works are returned, one with the slash and one without.
C2_CasingCollapsesSlashDoesNot ==
    /\ (pc = "dedup_once" /\ TwoCasingVariants) =>
          LET first == CHOOSE i \in DOMAIN arg :
                          /\ ~TitleBlank(arg[i]) /\ IsAbc(arg[i])
                          /\ \A j \in 1..(i - 1) :
                                TitleBlank(arg[j]) \/ ~IsAbc(arg[j])
          IN  /\ Cardinality(Where(res[1], IsAbc)) = 1
              /\ \A k \in Where(res[1], IsAbc) : res[1][k] = arg[first]
    /\ (pc = "dedup_once" /\ TwoCasingAndSlashVariants) =>
          /\ Cardinality(Where(res[1], IsAbc)) = 1
          /\ Cardinality(Where(res[1], IsAbcSlash)) = 1

\* dedup_works has run on a list holding the DOI in both casings and with
\* the trailing slash.
C2_Witness ==
    /\ pc = "dedup_once"
    /\ TwoCasingVariants
    /\ TwoCasingAndSlashVariants
    /\ Len(res[1]) = 2

\* C7: dedup_works is idempotent, and its result is the subsequence of the
\* list, in order and with the works unchanged, keeping the first work of
\* each key and dropping the works whose title is missing or empty.  The
\* title is the trimmed one, as dedup_works reads it: the lists tried also
\* hold a title made of a blank, which is empty once trimmed.
C7_DedupIdempotentFirstWins ==
    /\ pc = "dedup_twice" => res[2] = res[1]
    /\ pc \in {"dedup_once", "dedup_twice"} =>
          res[1] = Pick(arg, FirstOfKey(arg, TitleBlank), 1)

\* dedup_works has run twice on a list with a duplicate key, an empty title
\* and a white-space title, and kept two works.
C7_Witness ==
    /\ pc = "dedup_twice"
    /\ Len(arg) = 3
    /\ \E i, j \in DOMAIN arg :
          i < j /\ ~TitleBlank(arg[i]) /\ ~TitleBlank(arg[j])
          /\ DedupKey(arg[i]) = DedupKey(arg[j]) /\ arg[i] # arg[j]
    /\ \E i \in DOMAIN arg : TitleBlank(arg[i])
    /\ Len(res[1]) = 1

---------------------------------------------------------------------------
(* Harness: work_passes_filters on a work, a profile and a set of ids      *)

MaxKeywords == 1     \* longest keyword list of a profile

T_SeaSalt  == <<"S","e","a","u2013","S","a","l","t">>    \* with an en dash
T_Ice      == <<"I","c","e">>
D_url_ABC  == DoiUrlHttps \o D_ABC

FilterWorks ==
    { Work(title, doi, <<2020>>, <<>>, <<>>, <<>>, concepts) :
        title \in {<<>>, <<T_SeaSalt>>, <<T_Ice>>},
        doi \in {<<>>, <<D_url_ABC>>, <<D_xyz>>},
        concepts \in {<<>>, <<[id |-> "C1", score |-> 40], [id |-> "C2", score |-> 90]>>} }

FilterProfiles ==
    { Profile(mode, exclude_dois, exclude_kw, include_kw, <<>>, min_score) :
        mode \in {<<>>, <<"include_if_any">>, <<"none">>},
        exclude_dois \in {<<>>, <<D_ABC>>},
        exclude_kw \in SeqsUpTo({K_salt, <<>>, K_marks}, MaxKeywords),
        include_kw \in SeqsUpTo({K_sea_salt, K_ice}, MaxKeywords),
        min_score \in {<<>>, <<50>>} }

FilterInit ==
    /\ pc = "filter_start"
    /\ \E work \in FilterWorks, flt \in FilterProfiles, ids \in {{}, {"C1"}} :
          arg = [work |-> work, flt |-> flt, include_concept_ids |-> ids]
    /\ res = <<>>
    /\ MainIdle

FilterApply ==
    /\ pc = "filter_start"
    /\ res' = <<work_passes_filters(arg.work, arg.flt, arg.include_concept_ids)>>
    /\ pc' = "filter_done"
    /\ UNCHANGED <<arg>>
    /\ UNCHANGED mainVars

FilterNext == FilterApply

SpecFilter == FilterInit /\ [][FilterNext]_vars

\* the mode of the profile under study is not "none"
ArgFilters == arg.flt.mode # <<"none">>

\* the work's normalised DOI is not empty and is in the profile's exclude
\* list, compared without regard to case
ArgDoiExcluded ==
    LET doi == doi_norm(OrEmpty(arg.work.doi))
    IN  /\ doi # <<>>
        /\ \E i \in DOMAIN arg.flt.exclude_dois : Lower(arg.flt.exclude_dois[i]) = doi

\* the normalised title contains the normalised form of one of the keywords
ArgTitleHas(keywords) ==
    \E i \in DOMAIN keywords :
        Contains(norm_text(OrEmpty(arg.work.title)), norm_text(keywords[i]))

\* the same, for a keyword whose normalised form is not empty
ArgTitleHasNonEmpty(keywords) ==
    \E i \in DOMAIN keywords :
        /\ norm_text(keywords[i]) # <<>>
        /\ Contains(norm_text(OrEmpty(arg.work.title)), norm_text(keywords[i]))

\* a concept of the work is in the include set, at or above the minimum score
ArgConceptRule ==
    \E i \in DOMAIN arg.work.concepts :
        /\ arg.work.concepts[i].id \in arg.include_concept_ids
        /\ arg.work.concepts[i].score >=
              (IF arg.flt.min_concept_score = <<>> THEN DefaultMinScore
               ELSE arg.flt.min_concept_score[1])

\* C1: under a profile whose mode is not "none", a work whose normalised DOI
\* is not empty and in the exclude list, or whose normalised title contains
\* a normalised exclude keyword, does not pass, whether or not its title has
\* an include keyword or it has an include concept at or above the minimum
\* score.  A keyword is a text of which something is left once normalised:
\* the profiles tried also list "" and "?!", which title_matches skips.
C1_ExcludeBeforeInclude ==
    (/\ pc = "filter_done"
     /\ ArgFilters
     /\ (ArgDoiExcluded \/ ArgTitleHasNonEmpty(arg.flt.exclude_title_keywords)))
        => res[1] = FALSE

\* A work that matches an exclude keyword, an include keyword and an include
\* concept has been filtered.
C1_Witness ==
    /\ pc = "filter_done"
    /\ ArgFilters
    /\ ~ArgDoiExcluded
    /\ ArgTitleHasNonEmpty(arg.flt.exclude_title_keywords)
    /\ ArgTitleHasNonEmpty(arg.flt.include_title_keywords)
    /\ ArgConceptRule
    /\ res[1] = FALSE

---------------------------------------------------------------------------
(* Harness: build_list_html on a list of works and an item cap             *)

MaxListLen == 5      \* longest list handed to build_list_html
MaxItems   == 3      \* largest item cap tried

T_Ash  == <<"A","s","h">>
T_ash2 == <<"a","s","h"," ","2">>
T_Fog  == <<"F","o","g">>
D_fog  == <<"1","0",".","1","/","f","o","g">>
D_FOG  == <<"1","0",".","1","/","F","O","G">>

ListPool ==
    { Plain(<<T_Fog>>,  <<D_fog>>, <<2021>>),
      Plain(<<T_Rain>>, <<>>,      <<2020>>),
      Plain(<<T_Ash>>,  <<>>,      <<2020>>),    \* same year, earlier title
      Plain(<<T_ash2>>, <<>>,      <<2019>>),
      Plain(<<T_Dust>>, <<>>,      <<>>),        \* no year
      Plain(<<T_Snow>>, <<D_FOG>>, <<2022>>),    \* same key as the first
      Plain(<<>>,       <<>>,      <<2022>>) }   \* no title

\* the lists of at most n different elements of S
RECURSIVE DistinctSeqsUpTo(_, _)
DistinctSeqsUpTo(S, n) ==
    IF n = 0 THEN {<<>>}
    ELSE LET shorter == DistinctSeqsUpTo(S, n - 1)
         IN  shorter \cup UNION { {Append(t, x) : x \in S \ Range(t)} : t \in shorter }

ListInit ==
    /\ pc = "list_start"
    /\ \E works \in DistinctSeqsUpTo(ListPool, MaxListLen), cap \in 0..MaxItems :
          arg = [works |-> works, max_items |-> cap]
    /\ res = <<>>
    /\ MainIdle

ListBuild ==
    /\ pc = "list_start"
    /\ res' = build_list_html(arg.works, arg.max_items)
    /\ pc' = "list_done"
    /\ UNCHANGED <<arg>>
    /\ UNCHANGED mainVars

ListNext == ListBuild

SpecList == ListInit /\ [][ListNext]_vars

\* a comes before b in the order of the list: a later year first, a work
\* with no year after every work with one, then the lowercased titles in
\* ascending order
ListedBefore(a, b) ==
    LET ya == a.publication_year
        yb == b.publication_year
    IN  \/ ya # <<>> /\ yb = <<>>
        \/ ya # <<>> /\ yb # <<>> /\ ya[1] > yb[1]
        \/ /\ ya = yb
           /\ TextLess(Lower(OrEmpty(a.title)), Lower(OrEmpty(b.title)))

\* C6: for a cap max_items >= 0, build_list_html emits min(max_items, number
\* of deduplicated works) items; they are works of the deduplicated list,
\* each once, in the order of descending year (no year last) then ascending
\* lowercased title, and no work left out comes before an emitted one; the
\* item at position i (from 0) carries the number (items emitted - i).
C6_ListCountOrderNumbers ==
    pc = "list_done" =>
        LET unique == dedup_works(arg.works)
            n == IF arg.max_items < Len(unique) THEN arg.max_items ELSE Len(unique)
            shown == {res[i].work : i \in DOMAIN res}
        IN  /\ Len(res) = n
            /\ shown \subseteq Range(unique)
            /\ Cardinality(shown) = n
            /\ \A i, j \in DOMAIN res :
                  i < j => ~ListedBefore(res[j].work, res[i].work)
            /\ \A w \in Range(unique) \ shown :
                  \A v \in shown : ~ListedBefore(w, v)
            /\ \A i \in DOMAIN res : res[i].num = n - (i - 1)

\* Five different works capped to three: the numbers 3, 2, 1 on the three
\* most recent works.
C6_Witness ==
    /\ pc = "list_done"
    /\ Len(dedup_works(arg.works)) = 5
    /\ arg.max_items = 3
    /\ Len(res) = 3
    /\ res[1].num = 3 /\ res[2].num = 2 /\ res[3].num = 1
    /\ res[1].work.publication_year = <<2022>>
    /\ res[2].work.publication_year = <<2020>>
    /\ res[2].work.title = <<T_Ash>>
    /\ res[3].work.title = <<T_Rain>>

---------------------------------------------------------------------------
(* Harness: norm_text applied once, then applied to its own result         *)

NormInit ==
    /\ pc = "norm_start"
    /\ arg \in TextsUpTo(TextAlphabet, MaxTextLen)
    /\ res = <<>>
    /\ MainIdle

NormOnce ==
    /\ pc = "norm_start"
    /\ res' = <<norm_text(arg)>>
    /\ pc' = "norm_once"
    /\ UNCHANGED <<arg>>
    /\ UNCHANGED mainVars

NormTwice ==
    /\ pc = "norm_once"
    /\ res' = Append(res, norm_text(res[1]))
    /\ pc' = "norm_twice"
    /\ UNCHANGED <<arg>>
    /\ UNCHANGED mainVars

NormNext == NormOnce \/ NormTwice

SpecNorm == NormInit /\ [][NormNext]_vars

\* C9: norm_text is idempotent: normalising the result of norm_text gives
\* that result again, for every text of the alphabet (dash-like characters,
\* runs of hyphens, white space, underscore, slash, punctuation).
C9_NormIdempotent ==
    pc = "norm_twice" => res[2] = res[1]

\* A text with a run of hyphens next to white space, a dash-like character
\* and a separator has been normalised twice, and the first pass changed it.
C9_Witness ==
    /\ pc = "norm_twice"
    /\ arg = <<"-", "u2013", " ", "_">>
    /\ res[1] = <<"-">>

---------------------------------------------------------------------------
(* Inputs of a run of main                                                 *)

MaxMembers == 2      \* most rows in the members file

O_validX == <<"0","0","0","0","-","0","0","0","1","-","5","1","0","9","-","3","7","0","X">>
O_short  == <<"0","0","0","0","-","0","0","0","2","-","1","8","2","5","-","0","0","9">>

Ty_article      == <<"a","r","t","i","c","l","e">>
Ty_book_chapter == <<"B","o","o","k","-","C","h","a","p","t","e","r">>
Ty_proceedings  == <<"p","r","o","c","e","e","d","i","n","g","s","-","a","r","t","i","c","l","e">>
V_journal       == <<"J","."," ","A","e","r","o","s","o","l"," ","S","c","i",".">>
V_conf_series   == <<"C","o","n","f","e","r","e","n","c","e"," ","S","e","r","i","e","s">>
V_egu           == <<"E","G","U"," ","G","e","n","e","r","a","l"," ","A","s","s","e","m","b","l","y",
                     " ","2","0","2","0">>
St_journal      == <<"j","o","u","r","n","a","l">>
T_Clouds        == <<"C","l","o","u","d","s">>
T_Storms        == <<"S","t","o","r","m","s">>
T_SeaSalt_ascii == <<"S","e","a","-","S","a","l","t">>

\* a journal article, by DOI URL
wJ == Work(<<T_SeaSalt>>, <<D_url_ABC>>, <<2021>>, <<Ty_article>>, <<V_journal>>,
           <<St_journal>>, <<[id |-> "C1", score |-> 60]>>)
\* another record of the same article: bare DOI in lower case
wJdup == Work(<<T_SeaSalt_ascii>>, <<D_abc>>, <<2021>>, <<Ty_article>>, <<V_journal>>,
              <<St_journal>>, <<>>)
\* a book chapter whose venue name has "conference" in it
wB == Work(<<T_Clouds>>, <<>>, <<2019>>, <<Ty_book_chapter>>, <<V_conf_series>>, <<>>,
           <<[id |-> "C1", score |-> 60]>>)
\* an article of an EGU assembly: no conference in its type or venue
wE == Work(<<T_Storms>>, <<D_xyz>>, <<2020>>, <<Ty_article>>, <<V_egu>>, <<>>,
           <<[id |-> "C1", score |-> 40]>>)
\* a proceedings article, no venue, no year
wC == Work(<<T_Rain>>, <<>>, <<>>, <<Ty_proceedings>>, <<>>, <<>>, <<>>)
\* an article a filtering profile excludes by keyword
wIce == Work(<<T_Ice>>, <<>>, <<2020>>, <<Ty_article>>, <<V_journal>>, <<St_journal>>, <<>>)
\* a record whose title is a blank
wBlank == Work(<<T_blank>>, <<D_fog>>, <<2020>>, <<Ty_article>>, <<>>, <<>>, <<>>)

\* What openalex_works_by_orcid can return for a member.
FetchResults ==
    { <<>>, <<wJ, wB>>, <<wJdup, wE>>, <<wIce, wBlank, wC>> }

\* The rows a members file can hold: a well-formed or a malformed
\* identifier, with no profile cell or one of three profile names, "ghost"
\* having no file.
CsvRows ==
    { [orcid |-> o, filter_profile |-> f] :
        o \in {O_validX, O_short},
        f \in {<<>>, <<"none_x">>, <<"atmo">>, <<"ghost">>} }

\* The members file: missing, or holding at most MaxMembers rows.
CsvFiles == {<<>>} \cup { <<rows>> : rows \in SeqsUpTo(CsvRows, MaxMembers) }

---------------------------------------------------------------------------
(* main                                                                    *)

ErrorEvent(what) == [kind |-> "error", what |-> what]

EmptyCache == [p \in {} |-> 0]

MainInit ==
    /\ pc = "start"
    /\ arg = <<>>
    /\ res = <<>>
    /\ csv \in CsvFiles
    /\ members = <<>>
    /\ idx = 0
    /\ profile_cache = EmptyCache
    /\ included_all = <<>>
    /\ excluded_all = <<>>
    /\ journals = <<>>
    /\ conferences = <<>>
    /\ books = <<>>
    /\ written = <<>>
    /\ calls = <<>>

\* members = read_members_csv(args.members): open() raises when the file is
\* missing, read_members_csv raises SystemExit on a malformed identifier or
\* on no member
ReadMembers ==
    /\ pc = "start"
    /\ LET r == IF csv = <<>>
                THEN [ok |-> FALSE, error |-> "members file missing", members |-> <<>>]
                ELSE read_members_csv(csv[1])
       IN  IF r.ok
           THEN /\ members' = r.members
                /\ idx' = 1
                /\ pc' = "profile"
                /\ calls' = calls
           ELSE /\ pc' = "aborted"
                /\ calls' = Append(calls, ErrorEvent(r.error))
                /\ UNCHANGED <<members, idx>>
    /\ UNCHANGED <<arg, res, csv, profile_cache, included_all, excluded_all,
                   journals, conferences, books, written>>

\* the profile of the member is in the cache
CacheHit ==
    /\ pc = "profile"
    /\ ~NeedsLoad(members[idx].profile, profile_cache)
    /\ pc' = "fetch"
    /\ UNCHANGED <<arg, res, csv, members, idx, profile_cache, included_all,
                   excluded_all, journals, conferences, books, written, calls>>

\* load_filter_profile finds no file: SystemExit
LoadProfileMissing ==
    /\ pc = "profile"
    /\ NeedsLoad(members[idx].profile, profile_cache)
    /\ ~ProfileExists(members[idx].profile)
    /\ pc' = "aborted"
    /\ calls' = calls \o <<[kind |-> "load", profile |-> members[idx].profile, at |-> idx],
                           ErrorEvent("profile file missing")>>
    /\ UNCHANGED <<arg, res, csv, members, idx, profile_cache, included_all,
                   excluded_all, journals, conferences, books, written>>

\* the lookup events of the concept names 1..n of a profile
LookupEvents(profile, names, n) ==
    [i \in 1..n |-> [kind |-> "lookup", profile |-> profile, name |-> names[i]]]

\* the profile is loaded, its concept names resolved (none for mode "none")
\* and the pair cached
LoadProfile ==
    /\ pc = "profile"
    /\ NeedsLoad(members[idx].profile, profile_cache)
    /\ ProfileExists(members[idx].profile)
    /\ LET p == members[idx].profile
           flt == ProfileFiles[p]
           names == flt.include_concepts
           load == [kind |-> "load", profile |-> p, at |-> idx]
       IN  IF ModeOf(flt) = "none"
           THEN /\ profile_cache' = CachePut(profile_cache, p, flt, {})
                /\ calls' = Append(calls, load)
           ELSE \E outcome \in [DOMAIN names -> LookupOutcomes \ {"error"}] :
                /\ profile_cache' =
                      CachePut(profile_cache, p, flt, resolve_concept_ids(names, outcome))
                /\ calls' = calls \o <<load>> \o LookupEvents(p, names, Len(names))
    /\ pc' = "fetch"
    /\ UNCHANGED <<arg, res, csv, members, idx, included_all, excluded_all,
                   journals, conferences, books, written>>

\* a concept lookup fails on the network: the exception ends the run
LoadProfileNetworkError ==
    /\ pc = "profile"
    /\ NeedsLoad(members[idx].profile, profile_cache)
    /\ ProfileExists(members[idx].profile)
    /\ LET p == members[idx].profile
           flt == ProfileFiles[p]
           names == flt.include_concepts
       IN  /\ ModeOf(flt) # "none"
           /\ \E failing \in DOMAIN names :
                calls' = calls \o <<[kind |-> "load", profile |-> p, at |-> idx]>>
                               \o LookupEvents(p, names, failing)
                               \o <<ErrorEvent("network error in concept lookup")>>
    /\ pc' = "aborted"
    /\ UNCHANGED <<arg, res, csv, members, idx, profile_cache, included_all,
                   excluded_all, journals, conferences, books, written>>

\* a plausible slip: the failure is caught and the member skipped
FetchNetworkErrorSkipped ==
    /\ pc = "fetch"
    /\ IF idx < Len(members)
       THEN idx' = idx + 1 /\ pc' = "profile"
       ELSE idx' = idx /\ pc' = "classify"
    /\ UNCHANGED <<arg, res, csv, members, profile_cache, included_all,
                   excluded_all, journals, conferences, books, written, calls>>

\* openalex_works_by_orcid fails on the network: the exception ends the run
FetchNetworkError ==
    /\ pc = "fetch"
    /\ pc' = "aborted"
    /\ calls' = Append(calls, ErrorEvent("network error in works fetch"))
    /\ UNCHANGED <<arg, res, csv, members, idx, profile_cache, included_all,
                   excluded_all, journals, conferences, books, written>>

\* the works of the member are fetched, filtered with the cached pair and
\* appended to the two lists; the loop goes to the next member or ends
FetchAndFilter ==
    /\ pc = "fetch"
    /\ \E works \in FetchResults :
          LET p == members[idx].profile
              flt == profile_cache[p].flt
              concept_ids == profile_cache[p].concept_ids
              inc == FilterLoop(works, flt, concept_ids, TRUE)
              exc == FilterLoop(works, flt, concept_ids, FALSE)
          IN  /\ included_all' = included_all \o inc
              /\ excluded_all' = excluded_all \o exc
              /\ calls' = Append(calls,
                    [kind |-> "fetch", at |-> idx, profile |-> p, works |-> works,
                     flt |-> flt, concept_ids |-> concept_ids,
                     inc |-> inc, exc |-> exc])
    /\ IF idx < Len(members)
       THEN idx' = idx + 1 /\ pc' = "profile"
       ELSE idx' = idx /\ pc' = "classify"
    /\ UNCHANGED <<arg, res, csv, members, profile_cache,
                   journals, conferences, books, written>>

\* after the loop: dedup_works and sort_works on included_all, then the
\* classification loop
DedupSortClassify ==
    /\ pc = "classify"
    /\ included_all' = Merged(included_all)
    /\ journals' = BucketOf(Merged(included_all), "journals")
    /\ conferences' = BucketOf(Merged(included_all), "conferences")
    /\ books' = BucketOf(Merged(included_all), "books")
    /\ pc' = "write_journals"
    /\ UNCHANGED <<arg, res, csv, members, idx, profile_cache, excluded_all,
                   written, calls>>

\* one output file written: its name and the items of its list
WriteFile(here, file, works, cap, next) ==
    /\ pc = here
    /\ written' = Append(written, [file |-> file, items |-> build_list_html(works, cap)])
    /\ pc' = next
    /\ UNCHANGED <<arg, res, csv, members, idx, profile_cache, included_all,
                   excluded_all, journals, conferences, books, calls>>

WriteJournals ==
    WriteFile("write_journals", "journals", journals, DefaultMax, "write_conferences")

WriteConferences ==
    WriteFile("write_conferences", "conferences", conferences, DefaultMax, "write_books")

WriteBooks ==
    WriteFile("write_books", "books", books, DefaultMax, "write_excluded")

WriteExcluded ==
    WriteFile("write_excluded", "excluded", excluded_all, ExcludedMax, "done")

Next ==
    \/ ReadMembers
    \/ CacheHit
    \/ LoadProfileMissing
    \/ LoadProfile
    \/ LoadProfileNetworkError
    \/ FetchNetworkError
    \/ FetchAndFilter
    \/ DedupSortClassify
    \/ WriteJournals
    \/ WriteConferences
    \/ WriteBooks
    \/ WriteExcluded

Spec == MainInit /\ [][Next]_vars

---------------------------------------------------------------------------
(* Properties of a run of main                                             *)

\* the positions of the history whose event is of the kind
Events(kind) == { i \in DOMAIN calls : calls[i].kind = kind }

\* the lists of the fetch events, one after the other
RECURSIVE ConcatFetched(_, _)
ConcatFetched(i, field) ==
    IF i > Len(calls) THEN <<>>
    ELSE (IF calls[i].kind = "fetch"
          THEN (IF field = "inc" THEN calls[i].inc ELSE calls[i].exc)
          ELSE <<>>) \o ConcatFetched(i + 1, field)

InLoop == pc \in {"profile", "fetch", "classify"}

Classified == pc \in {"write_journals", "write_conferences", "write_books",
                      "write_excluded", "done"}

\* C3: when the run aborts (members file missing, malformed identifier, no
\* member, profile file missing, network error in a concept lookup or in a
\* works fetch, at whichever member) no output file has been written; a
\* file is written only once every member has been fetched and filtered,
\* in a run that met no such error; a run that ends without one has written
\* the four files, in the order journals, conferences, books, excluded.
C3_NoPartialOutput ==
    /\ pc = "aborted" =>
          /\ written = <<>>
          /\ calls # <<>> /\ calls[Len(calls)].kind = "error"
    /\ written # <<>> =>
          /\ Events("error") = {}
          /\ idx = Len(members)
          /\ \A m \in DOMAIN members : \E i \in Events("fetch") : calls[i].at = m
    /\ pc = "done" =>
          [i \in DOMAIN written |-> written[i].file] =
             <<"journals", "conferences", "books", "excluded">>

\* The run has aborted on an error at its second member, after the first
\* one was fetched and filtered, and nothing is written.
C3_Witness ==
    /\ pc = "aborted"
    /\ idx = 2
    /\ Events("fetch") # {}
    /\ included_all # <<>>
    /\ written = <<>>

\* C4: every work of the deduplicated included list is in exactly one of
\* the three buckets: books if is_book_or_chapter, else conferences if
\* is_conference or is_egu, else journals.  A work of type "book-chapter"
\* is in books even when its venue name has "conference" in it, and a work
\* that is no book and whose venue name has "egu" or "general assembly" in
\* it is in conferences even when is_conference is false.
C4_BucketsByPriority ==
    Classified =>
        /\ Len(journals) + Len(conferences) + Len(books) = Len(included_all)
        /\ \A i \in DOMAIN included_all :
              LET w == included_all[i]
                  inJ == w \in Range(journals)
                  inC == w \in Range(conferences)
                  inB == w \in Range(books)
                  venue == Lower(OrEmpty(w.venue))
              IN  /\ inB <=> is_book_or_chapter(w)
                  /\ inC <=> (~is_book_or_chapter(w) /\ (is_conference(w) \/ is_egu(w)))
                  /\ inJ <=> (~is_book_or_chapter(w) /\ ~is_conference(w) /\ ~is_egu(w))
                  /\ (Lower(OrEmpty(w.type)) = W_book_chapter) => (inB /\ ~inC /\ ~inJ)
                  /\ (/\ ~is_book_or_chapter(w)
                      /\ (Contains(venue, W_egu) \/ Contains(venue, W_assembly)))
                        => (inC /\ ~inB /\ ~inJ)

\* The run has classified a book chapter with a conference venue, an EGU
\* article that is_conference does not take, and a journal article.
C4_Witness ==
    /\ pc = "done"
    /\ wB \in Range(books)
    /\ Contains(Lower(OrEmpty(wB.venue)), W_conference)
    /\ wE \in Range(conferences)
    /\ ~is_conference(wE)
    /\ journals # <<>>

\* C5: the included works are deduplicated only after the works of all
\* members are merged: during the loop included_all is the plain
\* concatenation of what passed, member after member, and the buckets are
\* empty; after it no two works of the three buckets share an identity key,
\* and every fetched work with a non-empty title that passed its member's
\* filter has its key on exactly one work of the buckets, also when several
\* members fetched it.  The key and the title are those dedup_works reads
\* (the title trimmed).
C5_DedupAfterMerge ==
    /\ InLoop =>
          /\ included_all = ConcatFetched(1, "inc")
          /\ journals = <<>> /\ conferences = <<>> /\ books = <<>>
    /\ Classified =>
          LET b == journals \o conferences \o books
          IN  /\ \A i, j \in DOMAIN b : i # j => DedupKey(b[i]) # DedupKey(b[j])
              /\ \A e \in Events("fetch") : \A k \in DOMAIN calls[e].inc :
                    ~TitleBlank(calls[e].inc[k]) =>
                       Cardinality({ i \in DOMAIN b :
                                       DedupKey(b[i]) = DedupKey(calls[e].inc[k]) }) = 1

\* Two members fetched the same article (one also under another record of
\* it) and it passed both times: it is in the buckets once.
C5_Witness ==
    /\ pc = "done"
    /\ \E e1, e2 \in Events("fetch") :
          /\ calls[e1].at # calls[e2].at
          /\ wJ \in Range(calls[e1].inc)
          /\ wJ \in Range(calls[e2].inc)
    /\ journals = <<wJ>>
    /\ books = <<wB>>

\* C8: under a profile whose mode is "none", whatever its exclude DOIs,
\* exclude keywords, include keywords and threshold, every work passes:
\* every work fetched for such a member is appended to the included list
\* and none to the excluded list.
C8_NoneIncludesAll ==
    /\ \A e \in Events("fetch") :
          ModeOf(calls[e].flt) = "none" =>
             /\ calls[e].inc = calls[e].works
             /\ calls[e].exc = <<>>
    /\ InLoop => included_all = ConcatFetched(1, "inc")
    /\ excluded_all = ConcatFetched(1, "exc")

\* A member whose "none" profile lists the DOI and a title keyword of a
\* fetched work as exclusions has been filtered.
C8_Witness ==
    \E e \in Events("fetch") :
        /\ calls[e].profile = "none_x"
        /\ calls[e].works = <<wJdup, wE>>
        /\ doi_norm(OrEmpty(wJdup.doi)) \in Range(calls[e].flt.exclude_dois)
        /\ title_matches(OrEmpty(wJdup.title), calls[e].flt.exclude_title_keywords)
        /\ included_all = <<wJdup, wE>>
        /\ excluded_all = <<>>

\* C10: each profile name is loaded at most once, at the first member that
\* has it; every member filters with the pair the cache holds for its
\* profile name, which is the pair every earlier member of that name used
\* (an entry is never replaced or removed); no concept is looked up for a
\* profile whose mode is "none".
C10_ProfileLoadedOnce ==
    /\ \A l1, l2 \in Events("load") :
          calls[l1].profile = calls[l2].profile => l1 = l2
    /\ \A l \in Events("load") :
          /\ members[calls[l].at].profile = calls[l].profile
          /\ \A m \in 1..(calls[l].at - 1) : members[m].profile # calls[l].profile
    /\ \A p \in DOMAIN profile_cache :
          \E l \in Events("load") : calls[l].profile = p
    /\ \A e \in Events("fetch") :
          /\ calls[e].profile \in DOMAIN profile_cache
          /\ profile_cache[calls[e].profile] =
                [flt |-> calls[e].flt, concept_ids |-> calls[e].concept_ids]
    /\ \A k \in Events("lookup") :
          ModeOf(ProfileFiles[calls[k].profile]) # "none"

\* Two members share the filtering profile: one load, one lookup, and both
\* filtered with the resolved concept.
C10_Witness ==
    /\ pc = "done"
    /\ Len(members) = 2
    /\ members[1].profile = "atmo" /\ members[2].profile = "atmo"
    /\ Cardinality(Events("load")) = 1
    /\ Cardinality(Events("lookup")) = 1
    /\ Cardinality(Events("fetch")) = 2
    /\ profile_cache["atmo"].concept_ids = {"C1"}

=============================================================================
